---- MODULE Spec2Model ----
(***************************************************************************)
(* Chapter Performance Dashboard API: the request pipeline of the Express   *)
(* application (server.js, routes/chapters.js), its Redis-backed cache and  *)
(* rate limiters, the Joi validator and the chapter controller, modelled    *)
(* as a state machine.  One request is handled by one process slot; a slot  *)
(* moves from one I/O boundary (Redis command, MongoDB operation) to the    *)
(* next in one step, so concurrent requests interleave exactly at the       *)
(* awaits of the source.                                                    *)
(***************************************************************************)
EXTENDS Integers, Sequences, FiniteSets, TLC

VARIABLES
    store,        \* MongoDB collection "chapters": _id -> document
    nextId,       \* next _id the store assigns
    uniqueIndex,  \* a unique index on (subject, chapter, class, unit) exists in the database
    redis,        \* Redis keyspace: key -> [val, hits, ttl]
    pc,           \* per request slot: position in the middleware chain
    req,          \* per request slot: the request being handled
    loc,          \* per request slot: locals of the handlers (req.validChapters, savedChapters, ...)
    sent,         \* the response the last step sent, if it sent one, with its request
    window,       \* history: the client's requests counted and admitted by the general
                  \* limiter in its current 60 s window, and the time the window has left
    nodeEnv       \* process.env.NODE_ENV

vars == <<store, nextId, uniqueIndex, redis, pc, req, loc, sent, window, nodeEnv>>
storeVars == <<store, nextId, uniqueIndex>>

(***************************************************************************)
(* Bounds of the model.                                                     *)
(***************************************************************************)
NProcs == 2          \* request slots, i.e. requests in flight at once
MaxIds == 2          \* documents the store ever creates
MaxBatch == 3        \* longest bulk-create batch
MaxOver == 2         \* requests counted beyond a limiter's ceiling in one window

Procs == 1..NProcs

(***************************************************************************)
(* Program constants.                                                       *)
(***************************************************************************)
GeneralMax == 30          \* rateLimiter max
AdminMax == 100           \* adminRateLimiter max
WindowMs == 60000         \* windowMs of both limiters
MaxLimit == 100           \* queryParamsSchema: limit max(100)
ListTtl == 3600           \* cacheMiddleware(3600) on GET / and GET /:id
StatsTtl == 1800          \* cacheMiddleware(1800) on GET /stats

Years == 2019..2025
StatusValues == {"Not Started", "In Progress", "Completed", "Revision"}
StringFields == <<"subject", "chapter", "class", "unit">>
SchemaFields == {"subject", "chapter", "class", "unit", "yearWiseQuestionCount",
                 "questionSolved", "status", "isWeakChapter"}
ExpectedAdminKey == "default_admin_key"

Range(s) == {s[i] : i \in DOMAIN s}

(***************************************************************************)
(* Joi validation (validators/chapterValidator.js).  A raw item is a        *)
(* function from the field names it carries to their values.                *)
(***************************************************************************)
\* yearWiseQuestionCountSchema: each year an integer >= 0
YearCountErrors(raw) ==
    IF "yearWiseQuestionCount" \notin DOMAIN raw
    THEN <<"yearWiseQuestionCount">>
    ELSE IF \E y \in DOMAIN raw.yearWiseQuestionCount : raw.yearWiseQuestionCount[y] < 0
         THEN <<"yearWiseQuestionCount">>
         ELSE <<>>

StringErrors(raw, f) ==
    IF f \notin DOMAIN raw THEN <<f>>
    ELSE IF raw[f] = "" THEN <<f>> ELSE <<>>

\* chapterSchema.validate(raw, {abortEarly: false}): the fields in error, schema order
JoiErrors(raw) ==
    StringErrors(raw, "subject") \o StringErrors(raw, "chapter")
    \o StringErrors(raw, "class") \o StringErrors(raw, "unit")
    \o YearCountErrors(raw)
    \o (IF "questionSolved" \notin DOMAIN raw THEN <<"questionSolved">>
        ELSE IF raw.questionSolved < 0 THEN <<"questionSolved">> ELSE <<>>)
    \o (IF "status" \notin DOMAIN raw THEN <<"status">>
        ELSE IF raw.status \notin StatusValues THEN <<"status">> ELSE <<>>)
    \o (IF "isWeakChapter" \notin DOMAIN raw THEN <<"isWeakChapter">> ELSE <<>>)

\* missing years default to 0
FillYears(ywc) == [y \in Years |-> IF y \in DOMAIN ywc THEN ywc[y] ELSE 0]

\* the validated value: unknown fields stripped (stripUnknown), year defaults applied
JoiValue(raw) ==
    [f \in SchemaFields |->
        IF f = "yearWiseQuestionCount" THEN FillYears(raw[f]) ELSE raw[f]]

\* error.details.map(...): one entry per field in error
FieldErrors(fields) == [i \in DOMAIN fields |-> [field |-> fields[i]]]

\* validateChaptersArray, the forEach of lines 153-173: the accepted values in input order
RECURSIVE ValidChaptersOf(_)
ValidChaptersOf(chapters) ==
    IF chapters = <<>> THEN <<>>
    ELSE LET rest == ValidChaptersOf(SubSeq(chapters, 1, Len(chapters) - 1))
             last == chapters[Len(chapters)]
         IN  IF JoiErrors(last) = <<>> THEN Append(rest, JoiValue(last)) ELSE rest

\* a validator that numbers the rejected items among themselves
InvalidChaptersByOrdinal(chapters) ==
    LET bad == SelectSeq(chapters, LAMBDA c : JoiErrors(c) # <<>>)
    IN  [k \in DOMAIN bad |->
            [index |-> k - 1, chapter |-> bad[k], errors |-> FieldErrors(JoiErrors(bad[k]))]]

\* ... and the rejected items, each with its 0-based input index, the raw item and its errors
RECURSIVE InvalidChaptersOf(_)
InvalidChaptersOf(chapters) ==
    IF chapters = <<>> THEN <<>>
    ELSE LET rest == InvalidChaptersOf(SubSeq(chapters, 1, Len(chapters) - 1))
             last == chapters[Len(chapters)]
         IN  IF JoiErrors(last) # <<>>
             THEN Append(rest, [index |-> Len(chapters) - 1, chapter |-> last,
                                errors |-> FieldErrors(JoiErrors(last))])
             ELSE rest

(***************************************************************************)
(* MongoDB / Mongoose (models/Chapter.js and the calls of the controller).  *)
(***************************************************************************)
Identity(d) == <<d.subject, d.chapter, d.class, d.unit>>

\* the unique index, when the database has one, rejects a second document of one identity
Duplicate(st, uidx, d) == uidx /\ \E i \in DOMAIN st : Identity(st[i]) = Identity(d)

WithId(d, id) == [f \in SchemaFields \cup {"_id"} |-> IF f = "_id" THEN id ELSE d[f]]

\* Chapter.insertMany(docs, {ordered: false}): every document is tried, in order; a
\* failing one is reported as a write error carrying its position in docs and the
\* others are inserted.  acc = [store, nextId, insertedDocs, writeErrors].
RECURSIVE InsertFrom(_, _, _, _)
InsertFrom(acc, uidx, docs, i) ==
    IF i > Len(docs) THEN acc
    ELSE IF Duplicate(acc.store, uidx, docs[i])
         THEN InsertFrom([acc EXCEPT !.writeErrors =
                              Append(@, [index |-> i - 1, code |-> 11000,
                                         errmsg |-> "E11000 duplicate key error"])],
                         uidx, docs, i + 1)
         ELSE LET d == WithId(docs[i], acc.nextId)
              IN  InsertFrom([store |-> (acc.nextId :> d) @@ acc.store,
                              nextId |-> acc.nextId + 1,
                              insertedDocs |-> Append(acc.insertedDocs, d),
                              writeErrors |-> acc.writeErrors],
                             uidx, docs, i + 1)

\* an ordered insert: nothing after the first failing document is tried
InsertManyOrdered(st, nid, uidx, docs) ==
    LET start == [store |-> st, nextId |-> nid, insertedDocs |-> <<>>, writeErrors |-> <<>>]
        whole == InsertFrom(start, uidx, docs, 1)
    IN  IF whole.writeErrors = <<>> THEN whole
        ELSE InsertFrom(start, uidx, SubSeq(docs, 1, whole.writeErrors[1].index + 1), 1)

InsertMany(st, nid, uidx, docs) ==
    InsertFrom([store |-> st, nextId |-> nid, insertedDocs |-> <<>>, writeErrors |-> <<>>],
               uidx, docs, 1)

\* Update validators (runValidators: true) of chapterSchema on the fields of an update:
\* required strings, questionSolved min 0, status enum.  The year counts are plain
\* Numbers (lines 3-14) and the pre("save") hook of lines 100-111 is not run by
\* findByIdAndUpdate, so nothing checks their sign here.
UpdateValidatorErrors(update) ==
    {f \in DOMAIN update \cap Range(StringFields) : update[f] = ""}
    \cup {f \in DOMAIN update \cap {"questionSolved"} : update[f] < 0}
    \cup {f \in DOMAIN update \cap {"status"} : update[f] \notin StatusValues}

\* the document after $set of the update's schema fields (strict mode drops the others)
ApplyUpdate(doc, update) ==
    [f \in DOMAIN doc |->
        IF f \in DOMAIN update \cap SchemaFields
        THEN IF f = "yearWiseQuestionCount" THEN FillYears(update[f]) ELSE update[f]
        ELSE doc[f]]

\* the documents in _id order, as a sequence
RECURSIVE DocsFrom(_, _)
DocsFrom(st, i) ==
    IF i > MaxIds THEN <<>>
    ELSE IF i \in DOMAIN st THEN <<st[i]>> \o DocsFrom(st, i + 1) ELSE DocsFrom(st, i + 1)

RECURSIVE SumSeq(_)
SumSeq(s) == IF s = <<>> THEN 0 ELSE s[1] + SumSeq(Tail(s))

(***************************************************************************)
(* Redis: the cache helper (config/redis.js) and the keys of the two        *)
(* limiters.  A key is the sequence of the pieces it is concatenated from.  *)
(***************************************************************************)
IdStr(id) == ToString(id)

\* req.path inside the router
PathOf(r) ==
    CASE r.route = "list" -> <<"/">>
      [] r.route = "stats" -> <<"/stats">>
      [] r.route = "byId" -> <<"/", IdStr(r.id)>>
      [] OTHER -> <<"/health">>

\* rank of a query-parameter name in the order of Array.prototype.sort
ParamNames == <<"class", "limit", "page", "sortBy", "sortOrder", "status", "subject",
                "unit", "weakChapters">>
ParamRank(n) == CHOOSE i \in DOMAIN ParamNames : ParamNames[i] = n

\* a key built from the query in the order the client gave it
UnsortedQuery(q) == q

\* Object.keys(req.query).sort() rebuilt as an object: the pairs ordered by name
RECURSIVE SortedQuery(_)
SortedQuery(q) ==
    IF q = <<>> THEN <<>>
    ELSE LET m == CHOOSE i \in DOMAIN q :
                      \A j \in DOMAIN q : ParamRank(q[i][1]) <= ParamRank(q[j][1])
             others == [k \in 1..(Len(q) - 1) |-> IF k < m THEN q[k] ELSE q[k + 1]]
         IN  <<q[m]>> \o SortedQuery(others)

\* new URLSearchParams(sortedQuery).toString(): name=value joined by &
RECURSIVE QueryString(_)
QueryString(q) ==
    IF q = <<>> THEN <<>>
    ELSE <<q[1][1], "=", q[1][2]>>
         \o (IF Len(q) > 1 THEN <<"&">> ELSE <<>>) \o QueryString(Tail(q))

\* a key that leaves the query out
BaseKeyOnly(r) == <<"chapters:", r.method, ":">> \o PathOf(r)

generateCacheKey(r) ==
    LET baseKey == <<"chapters:", r.method, ":">> \o PathOf(r)
    IN  IF r.method = "GET" /\ Len(r.query) > 0
        THEN baseKey \o <<"?">> \o QueryString(SortedQuery(r.query))
        ELSE baseKey

ChaptersPattern == <<"chapters:", "*">>

\* a KEYS that returns every key of the database
MatchesAnyKey(pattern, key) == TRUE

\* a KEYS that takes the pattern for a literal key name
MatchesLiteral(pattern, key) == key = pattern

\* KEYS pattern: a pattern ending in * matches the keys that start with what precedes it
MatchesPattern(pattern, key) ==
    LET n == Len(pattern) - 1
    IN  Len(key) >= n /\ SubSeq(key, 1, n) = SubSeq(pattern, 1, n)

\* keyGenerator of the two limiters, under the store's key prefix
GeneralKey(r) == <<"rl:", r.ip>>
AdminKey(r) == <<"rl:", "admin_", r.ip>>

\* JSON.stringify / JSON.parse of a cached body
JsonStringify(data) == [json |-> data]
JsonParse(text) == text.json

Drop(f, ks) == [k \in DOMAIN f \ ks |-> f[k]]
Put(f, k, v) == [x \in DOMAIN f \cup {k} |-> IF x = k THEN v ELSE f[x]]

CacheKeys(rd) == {k \in DOMAIN rd : rd[k].kind = "cache"}

\* the limiters' counters, with their hits and remaining lifetime
RateCounters(rd) == [k \in {x \in DOMAIN rd : rd[x].kind = "rate"} |-> rd[k]]

(***************************************************************************)
(* Requests, locals and responses.                                          *)
(***************************************************************************)
IsAdminRoute(r) == r.method \in {"POST", "PUT", "PATCH", "DELETE"}

NoResp == [code |-> 0, status |-> "none", by |-> "none", cached |-> FALSE, err |-> "",
           body |-> <<>>, cacheKey |-> <<>>]

Response(code, status, by, body) ==
    [code |-> code, status |-> status, by |-> by, cached |-> FALSE, err |-> "",
     body |-> body, cacheKey |-> <<>>]

\* middleware/errorHandler.js: an error passed to next() becomes a generic 5xx response
ErrorHandler(err) ==
    [code |-> 500, status |-> "error", by |-> "errorHandler", cached |-> FALSE,
     err |-> err, body |-> <<>>, cacheKey |-> <<>>]

\* a catch that drops the error: nothing is sent and nothing is forwarded
SwallowError(err) == NoResp

\* the controllers' catch (error) { next(error) }: the error goes to the error handler
nextError(err) == ErrorHandler(err)

\* a JSON object that is no list: also the req.body of a multipart upload
EmptyObject == [isArray |-> FALSE, items |-> <<>>]

\* adminKey is the header x-admin-key ("" when absent); authorization is the header's
\* text in pieces (<<>> when absent), "Bearer " being one piece wherever it occurs
NoReq == [method |-> "GET", route |-> "none", id |-> 0, ip |-> "", adminKey |-> "",
          authorization |-> <<>>, body |-> <<>>, query |-> <<>>, hasFile |-> FALSE, file |-> EmptyObject]

\* lines 127-141: the chapters are the parsed content of the uploaded file when there
\* is one, else the request body
ChaptersOf(r) == IF r.hasFile THEN r.file ELSE r.body

\* a validator that lets any top-level value through
AnyShape(chapters) == TRUE

\* line 143: Array.isArray(chapters)
IsArray(chapters) == chapters.isArray

\* the locals of one request; the fields from counted on are history, not program state
NoLoc == [validChapters |-> <<>>, invalidChapters |-> <<>>, savedChapters |-> <<>>,
          failedChapters |-> <<>>, writeErrors |-> <<>>, keys |-> {}, result |-> NoResp,
          counted |-> {},        \* limiter keys this request incremented
          nth |-> 0,             \* this request is the client's nth of its window
          cleared |-> FALSE,     \* clearChapterCache was called
          cacheErr |-> FALSE,    \* a Redis command of this request failed
          insertCalled |-> FALSE,
          threw |-> FALSE,       \* insertMany threw an error without writeErrors
          storeBefore |-> <<>>,  \* the store when insertMany was called
          behind |-> {},         \* writers in flight whose write the value read predates
          expired |-> FALSE]     \* the value read predates a write already invalidated

NoSent == [slot |-> 0, req |-> NoReq, resp |-> NoResp, loc |-> NoLoc,
           cacheAfter |-> {}, storeAfter |-> <<>>]

(***************************************************************************)
(* History bookkeeping for staleness: every cached value and every value    *)
(* read but not yet cached records the writers in flight it predates.       *)
(***************************************************************************)
\* writer w changed the store: everything read before now predates w's write
MarkWriteRedis(rd, w) ==
    [k \in DOMAIN rd |->
        IF rd[k].kind = "cache" THEN [rd[k] EXCEPT !.behind = @ \cup {w}] ELSE rd[k]]

MarkWriteLoc(lc, w) ==
    [q \in Procs |->
        IF q # w /\ pc[q] = "resJson" THEN [lc[q] EXCEPT !.behind = @ \cup {w}] ELSE lc[q]]

\* writer w's invalidation call has completed: what still predates w's write is expired
MarkClearedRedis(rd, w) ==
    [k \in DOMAIN rd |->
        IF rd[k].kind = "cache" /\ w \in rd[k].behind
        THEN [rd[k] EXCEPT !.behind = @ \ {w}, !.expired = TRUE] ELSE rd[k]]

MarkClearedLoc(lc, w) ==
    [q \in Procs |->
        IF w \in lc[q].behind
        THEN [lc[q] EXCEPT !.behind = @ \ {w}, !.expired = TRUE] ELSE lc[q]]

\* the request of slot w is over: it is no longer a writer in flight
ForgetRedis(rd, w) ==
    [k \in DOMAIN rd |->
        IF rd[k].kind = "cache" THEN [rd[k] EXCEPT !.behind = @ \ {w}] ELSE rd[k]]

ForgetLoc(lc, w) ==
    [q \in Procs |-> IF q = w THEN NoLoc ELSE [lc[q] EXCEPT !.behind = @ \ {w}]]

KeysMatching(rd, pattern) == {k \in DOMAIN rd : MatchesPattern(pattern, k)}

(***************************************************************************)
(* The two ways a step ends.  rq is the request as the step leaves it, lc   *)
(* the locals, rd the Redis keyspace and st the store after the step.       *)
(***************************************************************************)
\* the handler awaits its next I/O at `where`
Continue(p, where, rq, lc, rd) ==
    /\ pc' = [pc EXCEPT ![p] = where]
    /\ req' = [req EXCEPT ![p] = rq]
    /\ loc' = lc
    /\ redis' = rd
    /\ sent' = NoSent
    /\ UNCHANGED nodeEnv

\* a response is sent (or the error handler sends one) and the request is over
Respond(p, r, lc, rd, st) ==
    /\ pc' = [pc EXCEPT ![p] = "idle"]
    /\ req' = [req EXCEPT ![p] = NoReq]
    /\ loc' = ForgetLoc(lc, p)
    /\ redis' = ForgetRedis(rd, p)
    /\ sent' = [slot |-> p, req |-> req[p], resp |-> r, loc |-> lc[p],
                cacheAfter |-> CacheKeys(rd), storeAfter |-> st]
    /\ UNCHANGED nodeEnv

(***************************************************************************)
(* Arrival of a request (server.js:23-27, routes/chapters.js).  A request   *)
(* enters at the global rate limiter ("server"); "router" is the state of  *)
(* a request the limiters have admitted.                                    *)
(***************************************************************************)
RouterEntry(r) == IF IsAdminRoute(r) THEN "adminRateLimiter"
                  ELSE IF r.route = "list" THEN "validateQueryParams"
                  ELSE "cacheMiddleware"

AdmittedEntry(r) == IF IsAdminRoute(r) THEN "adminAuth" ELSE RouterEntry(r)

\* documents a bulk create of this body would insert into the present store
WouldInsert(r) ==
    IF r.method = "POST" /\ ChaptersOf(r).isArray
    THEN Len(InsertMany(store, nextId, uniqueIndex,
                        ValidChaptersOf(ChaptersOf(r).items)).insertedDocs)
    ELSE 0

HitsOf(k) == IF k \in DOMAIN redis THEN redis[k].hits ELSE 0

Arrive(p, r, start) ==
    /\ pc[p] = "idle"
    /\ nextId + WouldInsert(r) - 1 <= MaxIds
    /\ start = "server" => /\ window.n < GeneralMax + MaxOver
                           /\ HitsOf(GeneralKey(r)) < GeneralMax + MaxOver
                           /\ HitsOf(AdminKey(r)) < AdminMax + MaxOver
    /\ Continue(p, IF start = "server" THEN "rateLimiter" ELSE AdmittedEntry(r), r,
                [loc EXCEPT ![p] = NoLoc], redis)
    /\ UNCHANGED <<storeVars, window>>

(***************************************************************************)
(* The rate limiters (middleware/rateLimiter.js:1-64).                      *)
(***************************************************************************)
\* the store's increment: INCR, and the window starts with the first hit
Increment(rd, key) ==
    IF key \in DOMAIN rd
    THEN Put(rd, key, [rd[key] EXCEPT !.hits = @ + 1])
    ELSE Put(rd, key, [kind |-> "rate", hits |-> 1, ttl |-> WindowMs])

\* a store kept in the memory of each instance: the instance in slot p counts alone
InstanceKey(p, key) == <<"instance", IdStr(p)>> \o key

\* RedisStore: whichever instance handles the request, the counter is the one Redis
\* key of the client
StoreKey(p, key) == key

\* a limiter that already refuses the max-th hit
ReachesLimit(totalHits, max) == totalHits >= max

\* the limiter's test of the hits against max
OverLimit(totalHits, max) == totalHits > max

TooMany(by) ==
    Response(429, "error", by, [retryAfter |-> 60])

\* a limiter without the exemption
SkipNothing(r) == FALSE

\* skip: the general limiter passes /health on without counting it
skip(r) == r.route = "health"

\* the /health handler of server.js
HealthCheck == Response(200, "success", "health", <<>>)

\* what follows the general limiter: the chapters router, or the /health handler
AfterLimiter(p, r, lc, rd) ==
    IF r.route = "health" THEN Respond(p, HealthCheck, lc, rd, store)
    ELSE Continue(p, RouterEntry(r), r, lc, rd)

\* rateLimiter: skip for /health, else count the hit under the IP and compare with max;
\* a failing store command is an error passed to next()
RateLimiter(p, ok) ==
    /\ pc[p] = "rateLimiter"
    /\ LET r == req[p]
           key == StoreKey(p, GeneralKey(r))
           rd == Increment(redis, key)
           lc == [loc EXCEPT ![p].counted = @ \cup {key}, ![p].nth = window.n + 1]
       IN  IF skip(r)
           THEN /\ AfterLimiter(p, r, loc, redis)
                /\ UNCHANGED window
           ELSE IF ~ok
           THEN /\ Respond(p, ErrorHandler("redis"), [loc EXCEPT ![p].cacheErr = TRUE],
                           redis, store)
                /\ UNCHANGED window
           ELSE /\ window' = [n |-> window.n + 1,
                              admitted |-> IF OverLimit(rd[key].hits, GeneralMax)
                                           THEN window.admitted ELSE window.admitted + 1,
                              left |-> IF window.n = 0 THEN WindowMs ELSE window.left]
                /\ IF OverLimit(rd[key].hits, GeneralMax)
                   THEN Respond(p, TooMany("rateLimiter"), lc, rd, store)
                   ELSE AfterLimiter(p, r, lc, rd)
    /\ UNCHANGED storeVars

\* adminRateLimiter: the same under the key admin_<IP>, with its own max
AdminRateLimiter(p, ok) ==
    /\ pc[p] = "adminRateLimiter"
    /\ LET r == req[p]
           key == StoreKey(p, AdminKey(r))
           rd == Increment(redis, key)
           lc == [loc EXCEPT ![p].counted = @ \cup {key}]
       IN  IF ~ok
           THEN Respond(p, ErrorHandler("redis"), [loc EXCEPT ![p].cacheErr = TRUE],
                        redis, store)
           ELSE IF OverLimit(rd[key].hits, AdminMax)
           THEN Respond(p, TooMany("adminRateLimiter"), lc, rd, store)
           ELSE Continue(p, "adminAuth", r, lc, rd)
    /\ UNCHANGED <<storeVars, window>>

\* time passes: every limiter window loses d ms, and a window that has run out is gone
Advance(d) ==
    /\ \E k \in DOMAIN redis : redis[k].kind = "rate"
    /\ redis' = [k \in {x \in DOMAIN redis : redis[x].kind = "rate" => redis[x].ttl > d} |->
                    IF redis[k].kind = "rate" THEN [redis[k] EXCEPT !.ttl = @ - d]
                    ELSE redis[k]]
    /\ sent' = NoSent
    /\ window' = IF window.left > d THEN [window EXCEPT !.left = @ - d]
                 ELSE [n |-> 0, admitted |-> 0, left |-> 0]
    /\ UNCHANGED <<storeVars, pc, req, loc, nodeEnv>>

\* the TTL of a cached response runs out
ExpireKey(k) ==
    /\ k \in CacheKeys(redis)
    /\ redis' = Drop(redis, {k})
    /\ sent' = NoSent
    /\ UNCHANGED <<storeVars, pc, req, loc, window, nodeEnv>>

(***************************************************************************)
(* Admin chain: adminAuth (middleware/auth.js) and the validators.          *)
(***************************************************************************)
\* String.prototype.replace with a string pattern: the first occurrence goes
RECURSIVE ReplaceFirst(_, _)
ReplaceFirst(text, piece) ==
    IF text = <<>> THEN <<>>
    ELSE IF Head(text) = piece THEN Tail(text)
    ELSE <<Head(text)>> \o ReplaceFirst(Tail(text), piece)

\* lines 33-35: x-admin-key, or else the authorization header without its "Bearer ";
\* the key in pieces, <<>> being the empty or missing key
AdminKeyOf(r) ==
    IF r.adminKey # "" THEN <<r.adminKey>> ELSE ReplaceFirst(r.authorization, "Bearer ")

adminAuth(p) ==
    /\ pc[p] = "adminAuth"
    /\ LET r == req[p]
           adminKey == AdminKeyOf(r)
       IN  IF adminKey = <<>>
           THEN Respond(p, Response(401, "error", "adminAuth", <<>>), loc, redis, store)
           ELSE IF adminKey # <<ExpectedAdminKey>>
           THEN Respond(p, Response(403, "error", "adminAuth", <<>>), loc, redis, store)
           ELSE Continue(p, CASE r.method = "POST" -> "validateChaptersArray"
                              [] r.method = "PUT" -> "validateChapter"
                              [] r.method = "PATCH" -> "updateChapter"
                              [] OTHER -> "deleteChapter",
                         r, loc, redis)
    /\ UNCHANGED <<storeVars, window>>

\* validateChaptersArray: chapters that are no array are refused; else the items are split
validateChaptersArray(p) ==
    /\ pc[p] = "validateChaptersArray"
    /\ LET r == req[p]
           chapters == ChaptersOf(r)
       IN  IF ~IsArray(chapters)
           THEN Respond(p, Response(400, "error", "validator", <<>>), loc, redis, store)
           ELSE Continue(p, "createChapters", r,
                         [loc EXCEPT ![p].validChapters = ValidChaptersOf(chapters.items),
                                     ![p].invalidChapters = InvalidChaptersOf(chapters.items)],
                         redis)
    /\ UNCHANGED <<storeVars, window>>

\* validateChapter (PUT): the full schema; the validated value replaces req.body
validateChapter(p) ==
    /\ pc[p] = "validateChapter"
    /\ LET r == req[p]
       IN  IF JoiErrors(r.body) # <<>>
           THEN Respond(p, Response(400, "error", "validator", FieldErrors(JoiErrors(r.body))),
                        loc, redis, store)
           ELSE Continue(p, "updateChapter", [r EXCEPT !.body = JoiValue(r.body)], loc, redis)
    /\ UNCHANGED <<storeVars, window>>

(***************************************************************************)
(* createChapters (controllers/chapterController.js:100-183).               *)
(***************************************************************************)
\* lines 123-125: the index reported for the j-th write error
StoreFaultIndex(j, writeError) == j - 1

\* lines 123-135: one rejection entry per write error
StoreFaults(writeErrors, validChapters) ==
    [j \in DOMAIN writeErrors |->
        [index |-> StoreFaultIndex(j, writeErrors[j]),
         chapter |-> validChapters[writeErrors[j].index + 1],
         errors |-> <<[field |-> "document", message |-> writeErrors[j].errmsg,
                       code |-> writeErrors[j].code]>>]]

IsStoreFault(entry) == entry.errors # <<>> /\ entry.errors[1].field = "document"

SavedSummary(doc) ==
    [id |-> doc._id, subject |-> doc.subject, chapter |-> doc.chapter,
     class |-> doc.class, unit |-> doc.unit]

\* a framing that calls a batch a success only when nothing failed
BulkStatusAllOrNothing(savedChapters, failedChapters) ==
    IF Len(failedChapters) = 0 THEN "success" ELSE "error"

\* lines 156 and 178: the framing of the report
BulkStatus(savedChapters, failedChapters) ==
    IF Len(savedChapters) > 0 THEN "success" ELSE "error"

BulkStatusCode(savedChapters, failedChapters) ==
    IF Len(savedChapters) > 0 THEN 201 ELSE 400

\* lines 154-179: the report
BulkReport(savedChapters, failedChapters) ==
    Response(BulkStatusCode(savedChapters, failedChapters),
             BulkStatus(savedChapters, failedChapters), "controller",
             [savedCount |-> Len(savedChapters),
              failedCount |-> Len(failedChapters),
              savedChapters |-> [i \in DOMAIN savedChapters |-> SavedSummary(savedChapters[i])],
              failedChapters |-> failedChapters])

\* a controller that reports nothing as saved once the store raised write errors
SavedNoneOnWriteErrors(insertedDocs) == <<>>

\* lines 137-142: savedChapters = bulkError.insertedDocs || []
SavedOnWriteErrors(insertedDocs) == insertedDocs

\* a controller that calls insertMany whatever the accepted list holds
InsertsAlways(validChapters) == TRUE

\* line 108: insertMany is called when the accepted list is not empty
InsertsWhen(validChapters) == Len(validChapters) > 0

\* a catch branch that absorbs whatever insertMany throws
HandlesAnyBulkError(hasWriteErrors) == TRUE

\* lines 122 and 143-145: the catch branch handles an error that carries writeErrors
\* and throws any other on
HandlesBulkError(hasWriteErrors) == hasWriteErrors

\* lines 116-120: clearChapterCache follows insertMany when insertMany has not thrown
ClearsAfterInsert(writeErrors) == writeErrors = <<>>

\* createChapters up to the end of insertMany.  up = FALSE: the store cannot be reached
\* and insertMany throws an error without writeErrors.
createChapters(p, up) ==
    /\ UNCHANGED window
    /\ pc[p] = "createChapters"
    /\ LET valid == loc[p].validChapters
           invalid == loc[p].invalidChapters
           res == InsertMany(store, nextId, uniqueIndex, valid)
           failed == invalid \o StoreFaults(res.writeErrors, valid)
           wrote == res.insertedDocs # <<>>
           lc0 == [loc EXCEPT ![p].failedChapters = invalid, ![p].storeBefore = store]
           lcThrew == [lc0 EXCEPT ![p].insertCalled = TRUE, ![p].threw = TRUE]
           saved == IF res.writeErrors = <<>> THEN res.insertedDocs
                    ELSE SavedOnWriteErrors(res.insertedDocs)
           lc1 == [lc0 EXCEPT ![p].savedChapters = saved,
                              ![p].failedChapters = failed,
                              ![p].writeErrors = res.writeErrors,
                              ![p].insertCalled = TRUE]
           lc == IF wrote THEN MarkWriteLoc(lc1, p) ELSE lc1
           rd == IF wrote THEN MarkWriteRedis(redis, p) ELSE redis
       IN  IF ~InsertsWhen(valid)
           THEN /\ Respond(p, BulkReport(<<>>, invalid), lc0, redis, store)
                /\ UNCHANGED storeVars
           ELSE IF ~up
           THEN /\ IF HandlesBulkError(FALSE)
                   THEN Respond(p, BulkReport(<<>>, invalid), lcThrew, redis, store)
                   ELSE Respond(p, nextError("mongo"), lcThrew, redis, store)
                /\ UNCHANGED storeVars
           ELSE /\ res.nextId - 1 <= MaxIds
                /\ store' = res.store
                /\ nextId' = res.nextId
                /\ UNCHANGED uniqueIndex
                /\ IF ClearsAfterInsert(res.writeErrors)
                   THEN Continue(p, "clearChapterCache", req[p], lc, rd)
                   ELSE Respond(p, BulkReport(saved, failed), lc, rd, res.store)

(***************************************************************************)
(* updateChapter and deleteChapter (controller lines 186-254).              *)
(***************************************************************************)
\* the unique index also guards updates
UpdateDuplicates(st, uidx, id, doc) ==
    uidx /\ \E i \in DOMAIN st \ {id} : Identity(st[i]) = Identity(doc)

updateChapter(p, up) ==
    /\ UNCHANGED window
    /\ pc[p] = "updateChapter"
    /\ LET r == req[p]
           doc == ApplyUpdate(store[r.id], r.body)
           ok200 == Response(200, "success", "controller", [chapter |-> doc])
       IN  IF ~up
           THEN /\ Respond(p, nextError("mongo"), loc, redis, store)
                /\ UNCHANGED storeVars
           ELSE IF UpdateValidatorErrors(r.body) # {}
           THEN /\ Respond(p, nextError("ValidationError"), loc, redis, store)
                /\ UNCHANGED storeVars
           ELSE IF r.id \notin DOMAIN store
           THEN /\ Respond(p, Response(404, "error", "controller", <<>>), loc, redis, store)
                /\ UNCHANGED storeVars
           ELSE IF UpdateDuplicates(store, uniqueIndex, r.id, doc)
           THEN /\ Respond(p, nextError("E11000"), loc, redis, store)
                /\ UNCHANGED storeVars
           ELSE /\ store' = [store EXCEPT ![r.id] = doc]
                /\ UNCHANGED <<nextId, uniqueIndex>>
                /\ Continue(p, "clearChapterCache", r,
                            MarkWriteLoc([loc EXCEPT ![p].result = ok200], p),
                            MarkWriteRedis(redis, p))

deleteChapter(p, up) ==
    /\ UNCHANGED window
    /\ pc[p] = "deleteChapter"
    /\ LET r == req[p]
           ok200 == Response(200, "success", "controller",
                             [deletedChapter |-> SavedSummary(store[r.id])])
       IN  IF ~up
           THEN /\ Respond(p, nextError("mongo"), loc, redis, store)
                /\ UNCHANGED storeVars
           ELSE IF r.id \notin DOMAIN store
           THEN /\ Respond(p, Response(404, "error", "controller", <<>>), loc, redis, store)
                /\ UNCHANGED storeVars
           ELSE /\ store' = Drop(store, {r.id})
                /\ UNCHANGED <<nextId, uniqueIndex>>
                /\ Continue(p, "clearChapterCache", r,
                            MarkWriteLoc([loc EXCEPT ![p].result = ok200], p),
                            MarkWriteRedis(redis, p))

(***************************************************************************)
(* clearChapterCache -> clearCachePattern -> cache.delPattern                *)
(* (middleware/cache.js:138-154, config/redis.js:164-175): KEYS, then DEL    *)
(* of the keys found.  Errors are caught and the handler goes on.           *)
(***************************************************************************)
\* the response the controller sends once the cache is cleared
AfterClear(p) ==
    IF req[p].method = "POST"
    THEN BulkReport(loc[p].savedChapters, loc[p].failedChapters)
    ELSE loc[p].result

\* client.keys(pattern); with no key found, or on an error, delPattern returns at once
clearChapterCache(p, ok) ==
    /\ pc[p] = "clearChapterCache"
    /\ LET keys == KeysMatching(redis, ChaptersPattern)
           lc == [loc EXCEPT ![p].cleared = TRUE]
       IN  IF ~ok
           THEN Respond(p, AfterClear(p), [lc EXCEPT ![p].cacheErr = TRUE], redis, store)
           ELSE IF keys = {}
           THEN Respond(p, AfterClear(p), MarkClearedLoc(lc, p), MarkClearedRedis(redis, p),
                        store)
           ELSE Continue(p, "delKeys", req[p], [lc EXCEPT ![p].keys = keys], redis)
    /\ UNCHANGED <<storeVars, window>>

\* client.del(keys), then the controller's response
delKeys(p, ok) ==
    /\ pc[p] = "delKeys"
    /\ IF ~ok
       THEN Respond(p, AfterClear(p), [loc EXCEPT ![p].cacheErr = TRUE], redis, store)
       ELSE Respond(p, AfterClear(p), MarkClearedLoc(loc, p),
                    MarkClearedRedis(Drop(redis, loc[p].keys), p), store)
    /\ UNCHANGED <<storeVars, window>>

(***************************************************************************)
(* Read path: validateQueryParams, cacheMiddleware (middleware/cache.js:     *)
(* 88-135) and the three read handlers of the controller.                   *)
(***************************************************************************)
QueryDefaults == <<<<"page", "1">>, <<"limit", "10">>, <<"sortBy", "createdAt">>,
                   <<"sortOrder", "desc">>>>

HasParam(q, n) == \E i \in DOMAIN q : q[i][1] = n

\* the validated query: the given parameters, then the defaults of the absent ones
WithDefaults(q) ==
    q \o SelectSeq(QueryDefaults, LAMBDA d : ~HasParam(q, d[1]))

\* convert: the number a decimal string of the query denotes
ToNumber(str) == CHOOSE n \in 0..(MaxLimit + 1) : ToString(n) = str

\* page is an integer >= 1 and limit an integer in 1..100
QueryErrors(q) ==
    {q[i][1] : i \in {j \in DOMAIN q :
                         \/ q[j][1] = "page" /\ ToNumber(q[j][2]) < 1
                         \/ q[j][1] = "limit" /\ ~(ToNumber(q[j][2]) \in 1..MaxLimit)}}

validateQueryParams(p) ==
    /\ pc[p] = "validateQueryParams"
    /\ LET r == req[p]
       IN  IF QueryErrors(r.query) # {}
           THEN Respond(p, Response(400, "error", "validator", <<>>), loc, redis, store)
           ELSE Continue(p, "cacheMiddleware", [r EXCEPT !.query = WithDefaults(@)],
                         loc, redis)
    /\ UNCHANGED <<storeVars, window>>

\* a middleware that caches every route for cache.set's default ttl
DefaultTtl(r) == ListTtl

RouteTtl(r) == IF r.route = "stats" THEN StatsTtl ELSE ListTtl

\* lines 102-107: the cached data, cached: true and, in development, the cache key
\* (cacheKey: undefined is left out of the JSON sent)
HitResponse(cachedData, cacheKey, env) ==
    [cachedData EXCEPT !.code = 200, !.cached = TRUE, !.by = "cache",
                       !.cacheKey = IF env = "development" THEN cacheKey ELSE <<>>]

\* cache.get(cacheKey): a hit answers 200 with the cached body and cached: true;
\* a miss, or a failing GET (cache.get returns null), goes on to the handler
cacheMiddleware(p, ok) ==
    /\ pc[p] = "cacheMiddleware"
    /\ LET cacheKey == generateCacheKey(req[p])
       IN  IF ok /\ cacheKey \in DOMAIN redis
           THEN Respond(p, HitResponse(JsonParse(redis[cacheKey].val), cacheKey, nodeEnv),
                        [loc EXCEPT ![p].expired = redis[cacheKey].expired,
                                    ![p].behind = redis[cacheKey].behind],
                        redis, store)
           ELSE Continue(p, "readHandler", req[p], [loc EXCEPT ![p].cacheErr = ~ok], redis)
    /\ UNCHANGED <<storeVars, window>>

\* the value of parameter n in the validated query
Param(q, n) == q[CHOOSE i \in DOMAIN q : q[i][1] = n][2]

\* lines 22-26: the filter.  The model's queries filter by class and by status; the
\* class is matched by a case-insensitive RegExp, which among the model's class names
\* (none contained in another) matches the same name only
Matches(doc, q) ==
    /\ HasParam(q, "class") => doc["class"] = Param(q, "class")
    /\ HasParam(q, "status") => doc["status"] = Param(q, "status")

\* Chapter.find(filter).sort(sort): the matching documents in the order of the sort
FindSorted(st, q) == SelectSeq(DocsFrom(st, 1), LAMBDA doc : Matches(doc, q))

\* .skip(skip).limit(limit)
SkipLimit(docs, offset, limit) ==
    [i \in 1..(IF Len(docs) - offset < 0 THEN 0
               ELSE IF Len(docs) - offset < limit THEN Len(docs) - offset ELSE limit) |->
        docs[offset + i]]

\* a page count that drops the last, partial page
MathFloor(a, b) == a \div b

\* Math.ceil(a / b) for a >= 0 and b >= 1
MathCeil(a, b) == (a + b - 1) \div b

\* getAllChapters: the page of the matching documents and the pagination block; null
\* is <<>> and a page number n is <<n>>
getAllChapters(st, q) ==
    LET page == ToNumber(Param(q, "page"))
        limit == ToNumber(Param(q, "limit"))
        offset == (page - 1) * limit    \* skip
        found == FindSorted(st, q)
        totalCount == Len(found)
        totalPages == MathCeil(totalCount, limit)
        hasNextPage == page < totalPages
        hasPrevPage == page > 1
    IN  Response(200, "success", "controller",
                 [chapters |-> SkipLimit(found, offset, limit),
                  pagination |-> [currentPage |-> page, totalPages |-> totalPages,
                                  totalCount |-> totalCount, limit |-> limit,
                                  hasNextPage |-> hasNextPage, hasPrevPage |-> hasPrevPage,
                                  nextPage |-> IF hasNextPage THEN <<page + 1>> ELSE <<>>,
                                  prevPage |-> IF hasPrevPage THEN <<page - 1>> ELSE <<>>]])

\* getChapterById
getChapterById(st, id) ==
    IF id \in DOMAIN st
    THEN Response(200, "success", "controller", [chapter |-> st[id]])
    ELSE Response(404, "error", "controller", <<>>)

\* lines 279-289: Object.values({2019: 1, ..., 2025: 1}), the names the $sum operands
\* are built from: seven times the value 1, not the years
YearOperands == [i \in 1..Cardinality(Years) |-> 1]

\* "$yearWiseQuestionCount.<name>": a field the document lacks is null, which $sum
\* counts as nothing
YearCount(doc, name) ==
    IF name \in DOMAIN doc.yearWiseQuestionCount THEN doc.yearWiseQuestionCount[name] ELSE 0

\* the $sum of the operands
TotalQuestions(doc) ==
    SumSeq([i \in DOMAIN YearOperands |-> YearCount(doc, YearOperands[i])])

\* the $cond: questionSolved / total * 100 when total > 0, else 0; a fraction num/den
RateOf(questionSolved, total) ==
    IF total > 0 THEN [num |-> questionSolved * 100, den |-> total]
    ELSE [num |-> 0, den |-> 1]

RECURSIVE SumRates(_)
SumRates(rates) ==
    IF rates = <<>> THEN [num |-> 0, den |-> 1]
    ELSE LET rest == SumRates(Tail(rates))
         IN  [num |-> rates[1].num * rest.den + rest.num * rates[1].den,
              den |-> rates[1].den * rest.den]

\* Math.round of the $avg of the rates (0 for an empty collection)
RoundedMean(rates) ==
    IF rates = <<>> THEN 0
    ELSE LET total == SumRates(rates)
             den == total.den * Len(rates)
         IN  (2 * total.num + den) \div (2 * den)

\* getStatistics: the overview counters
getStatistics(st) ==
    LET docs == DocsFrom(st, 1)
    IN  Response(200, "success", "controller",
                 [totalChapters |-> Len(docs),
                  totalQuestionsSolved |-> SumSeq([i \in DOMAIN docs |-> docs[i].questionSolved]),
                  weakChapters |-> Cardinality({i \in DOMAIN docs : docs[i].isWeakChapter}),
                  averageCompletionRate |->
                      RoundedMean([i \in DOMAIN docs |->
                                      RateOf(docs[i].questionSolved, TotalQuestions(docs[i]))])])

\* the handler's query against the store: the moment the response is computed.  An
\* error goes through next(error) to the error handler, whose response passes the
\* overridden res.json like any other.
readHandler(p, up) ==
    /\ pc[p] = "readHandler"
    /\ LET r == req[p]
           result == CASE r.route = "list" -> getAllChapters(store, r.query)
                       [] r.route = "stats" -> getStatistics(store)
                       [] OTHER -> getChapterById(store, r.id)
       IN  Continue(p, "resJson", r,
                    [loc EXCEPT ![p].result = IF up THEN result ELSE nextError("mongo"),
                                ![p].behind = {}, ![p].expired = FALSE],
                    redis)
    /\ UNCHANGED <<storeVars, window>>

\* a res.json override that caches whatever is sent
CachesEverything(data) == TRUE

\* lines 116-126: only a 200 "success" body is cached
Cacheable(data) == data.code = 200 /\ data.status = "success"

\* the overridden res.json: cache.set (SETEX; a failure is only logged), then the response
resJson(p, ok) ==
    /\ pc[p] = "resJson"
    /\ LET data == loc[p].result
           cacheKey == generateCacheKey(req[p])
           entry == [kind |-> "cache", val |-> JsonStringify(data), ttl |-> RouteTtl(req[p]),
                     behind |-> loc[p].behind, expired |-> loc[p].expired,
                     path |-> PathOf(req[p]), query |-> req[p].query]
       IN  IF ~Cacheable(data)
           THEN Respond(p, data, loc, redis, store)
           ELSE IF ok
           THEN Respond(p, data, loc, Put(redis, cacheKey, entry), store)
           ELSE Respond(p, data, [loc EXCEPT ![p].cacheErr = TRUE], redis, store)
    /\ UNCHANGED <<storeVars, window>>

(***************************************************************************)
(* Inputs.                                                                   *)
(***************************************************************************)
ChapterA == [subject |-> "Math", chapter |-> "Algebra", class |-> "Class 10",
             unit |-> "Unit 1", yearWiseQuestionCount |-> (2024 :> 5),
             questionSolved |-> 0, status |-> "Not Started", isWeakChapter |-> FALSE]
ChapterB == [subject |-> "Physics", chapter |-> "Optics", class |-> "Class 11",
             unit |-> "Unit 2", yearWiseQuestionCount |-> (2023 :> 2) @@ (2024 :> 1),
             questionSolved |-> 3, status |-> "In Progress", isWeakChapter |-> TRUE]
\* two fields in error
NegativeSolved == [ChapterA EXCEPT !.questionSolved = -1, !.status = "Done"]

RawItems == {ChapterA, ChapterB, NegativeSolved}

RECURSIVE SeqsUpTo(_, _)
SeqsUpTo(S, n) ==
    IF n = 0 THEN {<<>>}
    ELSE LET shorter == SeqsUpTo(S, n - 1)
         IN  shorter \cup {Append(s, x) : s \in shorter, x \in S}

Patches == {[questionSolved |-> -1], [status |-> "Completed"],
            [yearWiseQuestionCount |-> (2024 :> -5)]}

Request(method, route, id, adminKey, body) ==
    [method |-> method, route |-> route, id |-> id, ip |-> "10.0.0.1",
     adminKey |-> adminKey, authorization |-> <<>>, body |-> body, query |-> <<>>,
     hasFile |-> FALSE, file |-> EmptyObject]

\* a bulk create whose chapters come in an uploaded JSON file (upload.single)
Upload(adminKey, content) ==
    [Request("POST", "list", 0, adminKey, EmptyObject) EXCEPT
         !.hasFile = TRUE, !.file = content]

\* the requests of the bulk-write specification: every batch, updates and deletes
BulkRequests ==
    {Request("POST", "list", 0, ExpectedAdminKey, [isArray |-> TRUE, items |-> b]) :
         b \in SeqsUpTo(RawItems, MaxBatch)}
    \cup {Request("POST", "list", 0, ExpectedAdminKey, EmptyObject)}
    \cup {Upload(ExpectedAdminKey, EmptyObject),
          Upload(ExpectedAdminKey, [isArray |-> TRUE, items |-> <<ChapterA, NegativeSolved>>])}
    \cup {Request("PATCH", "byId", 1, ExpectedAdminKey, u) : u \in Patches}
    \cup {Request("PUT", "byId", 1, ExpectedAdminKey, u) : u \in {ChapterB, NegativeSolved}}
    \cup {Request("DELETE", "byId", 1, k, <<>>) : k \in {"", "wrong", ExpectedAdminKey}}
    \cup {Request("GET", "stats", 0, "", <<>>)}

\* the requests of the concurrent specification
RaceRequests ==
    {Request("POST", "list", 0, ExpectedAdminKey, [isArray |-> TRUE, items |-> <<ChapterA>>]),
     Request("PATCH", "byId", 1, ExpectedAdminKey, [status |-> "Completed"]),
     Request("DELETE", "byId", 1, ExpectedAdminKey, <<>>),
     Request("GET", "stats", 0, "", <<>>),
     Request("GET", "byId", 1, "", <<>>)}

\* the requests of the cache specification: the three reads and every kind of mutation
CacheRequests ==
    {Request("GET", "list", 0, "", <<>>),
     Request("GET", "stats", 0, "", <<>>),
     Request("GET", "byId", 1, "", <<>>),
     [Request("GET", "list", 0, "", <<>>) EXCEPT !.query = <<<<"page", "0">>>>],
     Request("POST", "list", 0, ExpectedAdminKey, [isArray |-> TRUE, items |-> <<ChapterA>>]),
     Request("PUT", "byId", 1, ExpectedAdminKey, ChapterB),
     Request("PATCH", "byId", 1, ExpectedAdminKey, [status |-> "Completed"]),
     Request("DELETE", "byId", 1, ExpectedAdminKey, <<>>)}

\* two filters in the two orders a client can give them, and one of them alone
Queries ==
    {<<<<"class", "Class 10">>, <<"status", "Completed">>>>,
     <<<<"status", "Completed">>, <<"class", "Class 10">>>>,
     <<<<"status", "Completed">>>>,
     <<>>}

\* the requests of the cache-key specification: the list under every query, the other
\* reads, and mutations
QueryRequests ==
    {[Request("GET", "list", 0, "", <<>>) EXCEPT !.query = q] : q \in Queries}
    \cup {Request("POST", "list", 0, ExpectedAdminKey,
                  [isArray |-> TRUE, items |-> <<ChapterA>>]),
          Request("PATCH", "byId", 1, ExpectedAdminKey, [status |-> "Completed"]),
          Request("DELETE", "byId", 1, ExpectedAdminKey, <<>>),
          Request("GET", "stats", 0, "", <<>>),
          Request("GET", "byId", 1, "", <<>>),
          Request("GET", "byId", 2, "", <<>>)}

\* the requests of the rate-limiting specification: a read, the health probe and an
\* admin request, all of one client IP
RateRequests ==
    {Request("GET", "list", 0, "", <<>>),
     Request("GET", "health", 0, "", <<>>),
     Request("PATCH", "byId", 1, ExpectedAdminKey, [status |-> "Completed"])}

\* the credentials a client can send: x-admin-key and authorization, each absent,
\* wrong or right, and an authorization header made of the bare secret
Credentials ==
    {<<"", <<>>>>, <<"wrong", <<>>>>, <<ExpectedAdminKey, <<>>>>,
     <<"", <<"Bearer ", ExpectedAdminKey>>>>, <<"", <<"Bearer ", "wrong">>>>,
     <<"wrong", <<"Bearer ", ExpectedAdminKey>>>>, <<"", <<ExpectedAdminKey>>>>}

\* the requests of the authentication specification: every admin route under every
\* credential, and a read
AuthRequests ==
    {[Request(m[1], m[2], m[3], c[1], m[4]) EXCEPT !.authorization = c[2]] :
         m \in {<<"POST", "list", 0, [isArray |-> TRUE, items |-> <<ChapterA>>]>>,
                <<"PUT", "byId", 1, ChapterB>>,
                <<"PATCH", "byId", 1, [status |-> "Completed"]>>,
                <<"DELETE", "byId", 1, <<>>>>},
         c \in Credentials}
    \cup {Request("GET", "stats", 0, "", <<>>)}

\* the list under every page and limit of a few, with or without a status filter, and
\* the writes that fill and empty the store
PageRequests ==
    {[Request("GET", "list", 0, "", <<>>) EXCEPT !.query = pg \o lm \o f] :
         pg \in {<<>>} \cup {<<<<"page", n>>>> : n \in {"1", "2", "3"}},
         lm \in {<<>>} \cup {<<<<"limit", n>>>> : n \in {"1", "2"}},
         f \in {<<>>, <<<<"status", "Not Started">>>>}}
    \cup {Request("POST", "list", 0, ExpectedAdminKey, [isArray |-> TRUE, items |-> b]) :
              b \in {<<ChapterA>>, <<ChapterB>>, <<ChapterA, ChapterB>>, <<ChapterA, ChapterA>>}}
    \cup {Request("DELETE", "byId", 1, ExpectedAdminKey, <<>>)}

\* the requests of the invalidation specification: a read that fills the cache and the
\* writes that clear it, all of one client IP
FrameRequests ==
    {Request("GET", "stats", 0, "", <<>>),
     Request("POST", "list", 0, ExpectedAdminKey, [isArray |-> TRUE, items |-> <<ChapterA>>]),
     Request("DELETE", "byId", 1, ExpectedAdminKey, <<>>)}

\* the requests of the termination specification: the three reads, and bulk creates of
\* one record, of the same record twice, of an invalid record and of no list
LiveRequests ==
    {Request("GET", "list", 0, "", <<>>),
     Request("GET", "stats", 0, "", <<>>),
     Request("GET", "byId", 1, "", <<>>),
     Request("POST", "list", 0, ExpectedAdminKey, EmptyObject)}
    \cup {Request("POST", "list", 0, ExpectedAdminKey, [isArray |-> TRUE, items |-> b]) :
              b \in {<<ChapterA>>, <<ChapterA, ChapterA>>, <<NegativeSolved>>}}

\* the requests of the shared-counter specification: reads of one client IP
SharedRequests ==
    {Request("GET", "stats", 0, "", <<>>)}

(***************************************************************************)
(* Specifications.                                                           *)
(***************************************************************************)
\* the database as the schema creates it: no unique index (models/Chapter.js:78-81)
Init ==
    /\ store = <<>>
    /\ nextId = 1
    /\ uniqueIndex = FALSE
    /\ redis = <<>>
    /\ pc = [p \in Procs |-> "idle"]
    /\ req = [p \in Procs |-> NoReq]
    /\ loc = [p \in Procs |-> NoLoc]
    /\ sent = NoSent
    /\ window = [n |-> 0, admitted |-> 0, left |-> 0]
    /\ nodeEnv = "production"

\* the schema's database, with NODE_ENV as docker-compose.yml sets it or as the
\* README's .env sets it
InitCache ==
    /\ store = <<>>
    /\ nextId = 1
    /\ uniqueIndex = FALSE
    /\ redis = <<>>
    /\ pc = [p \in Procs |-> "idle"]
    /\ req = [p \in Procs |-> NoReq]
    /\ loc = [p \in Procs |-> NoLoc]
    /\ sent = NoSent
    /\ window = [n |-> 0, admitted |-> 0, left |-> 0]
    /\ nodeEnv \in {"production", "development"}

\* the database with or without a unique index on (subject, chapter, class, unit)
InitBulk ==
    /\ store = <<>>
    /\ nextId = 1
    /\ uniqueIndex \in BOOLEAN
    /\ redis = <<>>
    /\ pc = [p \in Procs |-> "idle"]
    /\ req = [p \in Procs |-> NoReq]
    /\ loc = [p \in Procs |-> NoLoc]
    /\ sent = NoSent
    /\ window = [n |-> 0, admitted |-> 0, left |-> 0]
    /\ nodeEnv = "production"

\* one step of the request in slot p behind the limiters; every Redis command and
\* every MongoDB operation may fail
Step(p) ==
    \/ adminAuth(p)
    \/ validateChaptersArray(p)
    \/ validateChapter(p)
    \/ \E up \in BOOLEAN : createChapters(p, up)
    \/ \E up \in BOOLEAN : updateChapter(p, up)
    \/ \E up \in BOOLEAN : deleteChapter(p, up)
    \/ \E up \in BOOLEAN : readHandler(p, up)
    \/ \E ok \in BOOLEAN : clearChapterCache(p, ok)
    \/ \E ok \in BOOLEAN : delKeys(p, ok)
    \/ \E ok \in BOOLEAN : cacheMiddleware(p, ok)
    \/ \E ok \in BOOLEAN : resJson(p, ok)

\* the same with Redis and MongoDB reachable
StepUp(p) ==
    \/ adminAuth(p)
    \/ validateChaptersArray(p)
    \/ createChapters(p, TRUE)
    \/ updateChapter(p, TRUE)
    \/ deleteChapter(p, TRUE)
    \/ readHandler(p, TRUE)
    \/ clearChapterCache(p, TRUE)
    \/ delKeys(p, TRUE)
    \/ cacheMiddleware(p, TRUE)
    \/ resJson(p, TRUE)

\* concurrent requests behind the limiters
Next ==
    \/ \E p \in Procs, r \in RaceRequests : Arrive(p, r, "router")
    \/ \E p \in Procs : StepUp(p)

Spec == Init /\ [][Next]_vars

\* the bulk-write pipeline, one request at a time
NextBulk ==
    \/ \E r \in BulkRequests : Arrive(1, r, "router")
    \/ Step(1)
    \/ \E k \in DOMAIN redis : ExpireKey(k)

SpecBulk == InitBulk /\ [][NextBulk]_vars

\* the whole middleware chain of server.js for one client, one request at a time, with
\* time passing
NextRate ==
    \/ \E r \in RateRequests : Arrive(1, r, "server")
    \/ \E ok \in BOOLEAN : RateLimiter(1, ok)
    \/ \E ok \in BOOLEAN : AdminRateLimiter(1, ok)
    \/ adminAuth(1)
    \/ validateQueryParams(1)
    \/ \E up \in BOOLEAN : updateChapter(1, up)
    \/ \E ok \in BOOLEAN : cacheMiddleware(1, ok)
    \/ \E up \in BOOLEAN : readHandler(1, up)
    \/ \E ok \in BOOLEAN : resJson(1, ok)
    \/ \E d \in {WindowMs \div 2, WindowMs} : Advance(d)

SpecRate == Init /\ [][NextRate]_vars

\* reads and mutations behind the limiters, one request at a time, with Redis and
\* MongoDB failing at will
NextCache ==
    \/ \E r \in CacheRequests : Arrive(1, r, "router")
    \/ Step(1)
    \/ validateQueryParams(1)
    \/ \E k \in DOMAIN redis : ExpireKey(k)

SpecCache == InitCache /\ [][NextCache]_vars

\* list requests under several queries and mutations, one request at a time, with
\* Redis and MongoDB reachable
NextQuery ==
    \/ \E r \in QueryRequests : Arrive(1, r, "router")
    \/ validateQueryParams(1)
    \/ StepUp(1)

SpecQuery == Init /\ [][NextQuery]_vars

\* requests of one client handled concurrently by the instances behind the shared
\* Redis: each slot is a request in the hands of one instance
NextShared ==
    \/ \E p \in Procs, r \in SharedRequests : Arrive(p, r, "server")
    \/ \E p \in Procs : RateLimiter(p, TRUE)
    \/ \E p \in Procs : cacheMiddleware(p, TRUE)
    \/ \E p \in Procs : readHandler(p, TRUE)
    \/ \E p \in Procs : resJson(p, TRUE)
    \/ Advance(WindowMs)

SpecShared == Init /\ [][NextShared]_vars

\* the admin routes under every credential, one request at a time, with Redis and
\* MongoDB reachable
NextAuth ==
    \/ \E r \in AuthRequests : Arrive(1, r, "router")
    \/ validateChapter(1)
    \/ StepUp(1)

SpecAuth == Init /\ [][NextAuth]_vars

\* list requests answered by the handler, Redis being out of reach, between writes; one
\* request at a time
NextPage ==
    \/ \E r \in PageRequests : Arrive(1, r, "router")
    \/ validateQueryParams(1)
    \/ cacheMiddleware(1, FALSE)
    \/ readHandler(1, TRUE)
    \/ resJson(1, FALSE)
    \/ adminAuth(1)
    \/ validateChaptersArray(1)
    \/ createChapters(1, TRUE)
    \/ deleteChapter(1, TRUE)
    \/ clearChapterCache(1, FALSE)

SpecPage == Init /\ [][NextPage]_vars

\* reads and writes of one client through the whole chain of server.js, one request at
\* a time, with Redis and MongoDB reachable: the limiters' counters and the cached
\* reads share the Redis database
NextFrame ==
    \/ \E r \in FrameRequests : Arrive(1, r, "server")
    \/ RateLimiter(1, TRUE)
    \/ AdminRateLimiter(1, TRUE)
    \/ adminAuth(1)
    \/ validateChaptersArray(1)
    \/ createChapters(1, TRUE)
    \/ deleteChapter(1, TRUE)
    \/ clearChapterCache(1, TRUE)
    \/ delKeys(1, TRUE)
    \/ cacheMiddleware(1, TRUE)
    \/ readHandler(1, TRUE)
    \/ resJson(1, TRUE)
    \/ Advance(WindowMs)

SpecFrame == Init /\ [][NextFrame]_vars

\* one step of the request in slot 1 on the read path or in the bulk-create pipeline,
\* every Redis command and every MongoDB operation returning or failing
StepLive ==
    \/ adminAuth(1)
    \/ validateChaptersArray(1)
    \/ validateQueryParams(1)
    \/ \E up \in BOOLEAN : createChapters(1, up)
    \/ \E up \in BOOLEAN : readHandler(1, up)
    \/ \E ok \in BOOLEAN : clearChapterCache(1, ok)
    \/ \E ok \in BOOLEAN : delKeys(1, ok)
    \/ \E ok \in BOOLEAN : cacheMiddleware(1, ok)
    \/ \E ok \in BOOLEAN : resJson(1, ok)

NextLive ==
    \/ \E r \in LiveRequests : Arrive(1, r, "router")
    \/ StepLive

\* the event loop runs every continuation whose call has returned or failed
SpecLive == InitBulk /\ [][NextLive]_vars /\ WF_vars(StepLive)

(***************************************************************************)
(* Properties.  `sent` holds the response sent by the last step, with the   *)
(* request it answers, the handler's locals, the cached keys and the store  *)
(* at that moment.                                                           *)
(***************************************************************************)
\* the last step answered a bulk create with the controller's report
BulkReported == sent.req.method = "POST" /\ sent.resp.by = "controller"

\* the ids the answered bulk create added to the store
NewIds == DOMAIN sent.storeAfter \ DOMAIN sent.loc.storeBefore

\* the store-fault entries of the reported rejection list
ReportedStoreFaults ==
    SelectSeq(sent.resp.body.failedChapters, IsStoreFault)

\* C1: a bulk create calls the invalidation of chapters:* if and only if it saved at
\* least one record, also when other records of the batch failed at the store.
C1_ClearedIffSaved ==
    BulkReported => (sent.resp.body.savedCount >= 1 <=> sent.loc.cleared)

\* C2: no GET is answered from a cache entry computed from a store state that precedes
\* a mutation whose invalidation call has already completed.
C2_NoHitOnInvalidatedState ==
    sent.resp.by = "cache" => ~sent.loc.expired

\* C3: after a PUT, PATCH or DELETE of an existing record has answered 200, with every
\* Redis command of the request succeeding and no other request in flight (requests
\* are handled one at a time here), no key of the read path is left in the cache.
C3_MutationLeavesNoCachedRead ==
    (/\ sent.req.method \in {"PUT", "PATCH", "DELETE"}
     /\ sent.resp.code = 200
     /\ ~sent.loc.cacheErr)
    => sent.cacheAfter = {}

\* C3 witness: such a mutation found the list, the statistics and a by-id response
\* cached and removed all three.
C3_Witness ==
    /\ sent.req.method \in {"PUT", "PATCH", "DELETE"}
    /\ sent.resp.code = 200
    /\ ~sent.loc.cacheErr
    /\ Cardinality(sent.loc.keys) = 3
    /\ sent.cacheAfter = {}

\* C4: every store fault in the rejection list of a bulk create reports the position
\* of the failed record in the accepted list given to insertMany, and the accepted
\* record at that position.
C4_FaultIndexIsPosition ==
    BulkReported =>
        \A j \in DOMAIN sent.loc.writeErrors :
            LET entry == sent.resp.body.failedChapters[Len(sent.loc.invalidChapters) + j]
                position == sent.loc.writeErrors[j].index
            IN  /\ entry.index = position
                /\ entry.chapter = sent.loc.validChapters[position + 1]

\* C5: a read request during which a Redis command failed is never answered with the
\* Redis error.
C5_CacheErrorNeverSurfaces ==
    (sent.req.method = "GET" /\ sent.loc.cacheErr) => sent.resp.err # "redis"

\* C6: an admin request is counted under the admin key only and a public request under
\* the general key only, and the general limiter never rejects an admin request.
C6_IndependentBudgets ==
    sent.slot # 0 =>
        /\ IsAdminRoute(sent.req) => sent.loc.counted \subseteq {AdminKey(sent.req)}
        /\ ~IsAdminRoute(sent.req) => sent.loc.counted \subseteq {GeneralKey(sent.req)}
        /\ sent.resp.by = "rateLimiter" => ~IsAdminRoute(sent.req)

\* C7: a request that the general limiter counted as the n-th of its window is
\* rejected with 429 by that limiter exactly when n > 30; the window ends 60 s after
\* its first request, and the next request is again the 1st.  (A request whose
\* increment fails in Redis is not counted in any window.)
C7_RejectedBeyondMax ==
    (sent.slot # 0 /\ sent.loc.nth > 0) =>
        ((sent.resp.code = 429 /\ sent.resp.by = "rateLimiter") <=> sent.loc.nth > GeneralMax)

\* C7 witness: the 31st request of a window is answered 429.
C7_Witness ==
    /\ sent.loc.nth = GeneralMax + 1
    /\ sent.resp.code = 429
    /\ sent.resp.by = "rateLimiter"

\* C8: every stored record has year counts >= 0, questionSolved >= 0, a status of the
\* enumeration, and the id it was stored under at creation.
C8_StoredRecordsValid ==
    \A id \in DOMAIN store :
        /\ \A y \in DOMAIN store[id].yearWiseQuestionCount :
               store[id].yearWiseQuestionCount[y] >= 0
        /\ store[id].questionSolved >= 0
        /\ store[id].status \in StatusValues
        /\ store[id]._id = id

\* C9: the report of a bulk create is "success" with 201 exactly when savedCount >= 1
\* and "error" with 400 exactly when savedCount = 0, whatever the number of failures.
C9_FramingBySavedCount ==
    BulkReported =>
        /\ (sent.resp.status = "success" /\ sent.resp.code = 201)
               <=> sent.resp.body.savedCount >= 1
        /\ (sent.resp.status = "error" /\ sent.resp.code = 400)
               <=> sent.resp.body.savedCount = 0

\* C9 witness: a report with saved and failed records framed as a success.
C9_Witness ==
    /\ BulkReported
    /\ sent.resp.body.savedCount >= 1
    /\ sent.resp.body.failedCount >= 1
    /\ sent.resp.status = "success"
    /\ sent.resp.code = 201

\* C10: in the report of a bulk create the accepted records are split between the
\* saved list and the store faults: each position of the accepted list is a store
\* fault or a saved record and not both, the saved records are the records the
\* request added to the store, and no other record was added.
C10_SavedOrFaultedNeverBoth ==
    (BulkReported /\ sent.loc.insertCalled) =>
        LET valid == sent.loc.validChapters
            faulted == {sent.loc.writeErrors[j].index + 1 : j \in DOMAIN sent.loc.writeErrors}
            kept == SelectSeq([i \in DOMAIN valid |-> i], LAMBDA i : i \notin faulted)
            saved == sent.resp.body.savedChapters
            faults == ReportedStoreFaults
        IN  /\ Len(saved) + Len(faults) = Len(valid)
            /\ Len(faults) = Cardinality(faulted)
            /\ \A j \in DOMAIN faults :
                   faults[j].chapter = valid[sent.loc.writeErrors[j].index + 1]
            /\ Len(saved) = Len(kept)
            /\ \A i \in DOMAIN saved :
                   /\ saved[i].id \in NewIds
                   /\ SavedSummary(sent.storeAfter[saved[i].id]) = saved[i]
                   /\ Identity(sent.storeAfter[saved[i].id]) = Identity(valid[kept[i]])
            /\ NewIds = {saved[i].id : i \in DOMAIN saved}
            /\ Cardinality(NewIds) = Len(saved)

\* C10 witness: a report with a saved record and a store fault.
C10_Witness ==
    /\ BulkReported
    /\ sent.loc.insertCalled
    /\ sent.resp.body.savedCount >= 1
    /\ Len(ReportedStoreFaults) >= 1

\* the positions of the accepted list at which the store raised a write error
FaultedPositions == {sent.loc.writeErrors[j].index + 1 : j \in DOMAIN sent.loc.writeErrors}

\* C11: when the store rejects some accepted records of a batch, every accepted
\* record without a fault, before or after the failing ones, is in the store under
\* a new id and is listed as saved under that id.
C11_BatchNotAborted ==
    (BulkReported /\ sent.loc.writeErrors # <<>>) =>
        \A i \in DOMAIN sent.loc.validChapters \ FaultedPositions :
            \E k \in DOMAIN sent.resp.body.savedChapters :
                LET id == sent.resp.body.savedChapters[k].id
                IN  /\ id \in NewIds
                    /\ sent.storeAfter[id] = WithId(sent.loc.validChapters[i], id)

\* C11 witness: a record placed after a failing one in the batch was saved.
C11_Witness ==
    /\ BulkReported
    /\ sent.resp.body.savedCount >= 1
    /\ \E i \in DOMAIN sent.loc.validChapters \ FaultedPositions :
           \E f \in FaultedPositions : f < i

\* the stored records of the identity of the single accepted record of the batch
SameIdentityIn(st) ==
    {id \in DOMAIN st : Identity(st[id]) = Identity(sent.loc.validChapters[1])}

\* C12: a batch of one valid record reports 1 saved, 0 failed and 201 when the store
\* holds no record of that identity, and 0 saved, 1 failed, "error" and 400 when it
\* already holds one (the same batch sent a second time); afterwards the store holds
\* exactly one record of that identity.
C12_SecondPostRejected ==
    (/\ BulkReported
     /\ Len(sent.loc.validChapters) = 1
     /\ Len(sent.loc.invalidChapters) = 0) =>
        /\ SameIdentityIn(sent.loc.storeBefore) = {} =>
               /\ sent.resp.body.savedCount = 1
               /\ sent.resp.body.failedCount = 0
               /\ sent.resp.code = 201
        /\ SameIdentityIn(sent.loc.storeBefore) # {} =>
               /\ sent.resp.body.savedCount = 0
               /\ sent.resp.body.failedCount = 1
               /\ sent.resp.status = "error"
               /\ sent.resp.code = 400
        /\ Cardinality(SameIdentityIn(sent.storeAfter)) = 1

\* C13: when insertMany throws an error that carries no write errors, the error goes
\* to the error handler: no report is sent, the rejection list holds the validation
\* failures only and the store is as it was.
C13_FatalInsertErrorForwarded ==
    (sent.req.method = "POST" /\ sent.loc.threw) =>
        /\ sent.resp.by = "errorHandler"
        /\ sent.resp.err = "mongo"
        /\ sent.loc.failedChapters = sent.loc.invalidChapters
        /\ sent.storeAfter = sent.loc.storeBefore

\* C13 witness: insertMany threw on a batch holding accepted and rejected items.
C13_Witness ==
    /\ sent.loc.threw
    /\ sent.resp.by = "errorHandler"
    /\ Len(sent.loc.validChapters) >= 1
    /\ Len(sent.loc.invalidChapters) >= 1

\* C14: when the validator accepted no item, createChapters answers at once with
\* savedCount 0 and failedCount the number of items, without calling insertMany or
\* clearChapterCache, and leaves the store and the Redis keyspace as they were.
C14_NothingAcceptedNothingDone ==
    [][\A p \in Procs :
          (/\ pc[p] = "createChapters"
           /\ loc[p].validChapters = <<>>
           /\ pc'[p] # "createChapters") =>
              /\ store' = store
              /\ redis' = redis
              /\ sent'.resp.by = "controller"
              /\ ~sent'.loc.insertCalled
              /\ ~sent'.loc.cleared
              /\ sent'.resp.body.savedCount = 0
              /\ sent'.resp.body.failedCount = Len(ChaptersOf(req[p]).items)]_vars

\* C14 witness: a batch of rejected items only was answered with its report while
\* responses were cached.
C14_Witness ==
    /\ BulkReported
    /\ sent.loc.validChapters = <<>>
    /\ sent.resp.body.failedCount >= 2
    /\ sent.cacheAfter # {}
    /\ store # <<>>

\* C15: chapters whose top-level value is no list, sent in the body or in an uploaded
\* file, are answered 400 by the validator: no item is validated, the request ends
\* there, and the store and the Redis keyspace are as they were.
C15_NonListRefused ==
    [][\A p \in Procs :
          (/\ pc[p] = "validateChaptersArray"
           /\ ~ChaptersOf(req[p]).isArray
           /\ pc'[p] # "validateChaptersArray") =>
              /\ pc'[p] = "idle"
              /\ sent'.resp.code = 400
              /\ sent'.resp.by = "validator"
              /\ sent'.loc.validChapters = <<>>
              /\ sent'.loc.invalidChapters = <<>>
              /\ ~sent'.loc.insertCalled
              /\ store' = store
              /\ redis' = redis]_vars

\* C15 witness: an uploaded file holding an object was refused while the store held
\* records and responses were cached.
C15_Witness ==
    /\ sent.req.method = "POST"
    /\ sent.req.hasFile
    /\ sent.resp.code = 400
    /\ sent.resp.by = "validator"
    /\ sent.cacheAfter # {}
    /\ store # <<>>

\* C16: once validateChaptersArray has split a list of n items, the accepted and the
\* rejected lists have n entries together; the rejected entries carry strictly
\* increasing indexes in 0..n-1, each the input position of its item, which is an
\* item in error; and the accepted list is the validated values of the other items
\* in input order.
C16_ValidatorPartition ==
    \A p \in Procs :
        pc[p] = "createChapters" =>
            LET items == ChaptersOf(req[p]).items
                valid == loc[p].validChapters
                invalid == loc[p].invalidChapters
                rejected == {invalid[k].index + 1 : k \in DOMAIN invalid}
                kept == SelectSeq([i \in DOMAIN items |-> i], LAMBDA i : i \notin rejected)
            IN  /\ Len(valid) + Len(invalid) = Len(items)
                /\ \A k \in DOMAIN invalid :
                       /\ invalid[k].index \in 0..(Len(items) - 1)
                       /\ invalid[k].chapter = items[invalid[k].index + 1]
                       /\ JoiErrors(items[invalid[k].index + 1]) # <<>>
                       /\ \A j \in DOMAIN invalid : j < k => invalid[j].index < invalid[k].index
                /\ Len(valid) = Len(kept)
                /\ \A k \in DOMAIN kept :
                       /\ JoiErrors(items[kept[k]]) = <<>>
                       /\ valid[k] = JoiValue(items[kept[k]])

\* C16 witness: a list of three items was split into accepted and rejected items,
\* the first rejected item standing behind an accepted one.
C16_Witness ==
    \E p \in Procs :
        /\ pc[p] = "createChapters"
        /\ Len(ChaptersOf(req[p]).items) = 3
        /\ Len(loc[p].validChapters) >= 1
        /\ Len(loc[p].invalidChapters) >= 1
        /\ loc[p].invalidChapters[1].index >= 1

\* C17: every entry cached under chapters:* holds a response that was sent with HTTP
\* 200 and status "success", and a response served from the cache is a "success".
C17_OnlySuccessCached ==
    /\ \A k \in CacheKeys(redis) :
           /\ MatchesPattern(ChaptersPattern, k)
           /\ JsonParse(redis[k].val).code = 200
           /\ JsonParse(redis[k].val).status = "success"
    /\ sent.resp.by = "cache" => sent.resp.status = "success"

\* C17 witness: a read was answered 404 through the overridden res.json and nothing
\* was stored under its key, while other responses were cached.
C17_Witness ==
    /\ sent.req.method = "GET"
    /\ sent.resp.code = 404
    /\ sent.loc.result.code = 404
    /\ generateCacheKey(sent.req) \notin sent.cacheAfter
    /\ sent.cacheAfter # {}

\* the last step answered a read request that went through cacheMiddleware
ReadKey == generateCacheKey(sent.req)

\* a miss: the handler ran and its response is sent as it is, without the cached flag;
\* with Redis answering, a 200 "success" is then stored under the key with the TTL of
\* its route, and any other response leaves the key absent
MissPath ==
    (sent.req.method = "GET" /\ sent.resp.by \in {"controller", "errorHandler"}) =>
        /\ sent.loc.result # NoResp
        /\ sent.resp = sent.loc.result
        /\ ~sent.resp.cached
        /\ ~sent.loc.cacheErr =>
               IF sent.resp.code = 200 /\ sent.resp.status = "success"
               THEN /\ ReadKey \in DOMAIN redis
                    /\ JsonParse(redis[ReadKey].val) = sent.resp
                    /\ redis[ReadKey].ttl =
                           (IF sent.req.route = "stats" THEN StatsTtl ELSE ListTtl)
               ELSE ReadKey \notin DOMAIN redis

\* a hit: the handler did not run and the response is what the key holds, marked cached
HitPath(extra) ==
    sent.resp.by = "cache" =>
        /\ sent.loc.result = NoResp
        /\ ReadKey \in DOMAIN redis
        /\ sent.resp = [JsonParse(redis[ReadKey].val) EXCEPT
                            !.cached = TRUE, !.by = "cache", !.cacheKey = extra]

C19_KeyIgnoresParameterOrder ==
    \A p \in Procs :
        pc[p] = "cacheMiddleware" =>
            \A k \in CacheKeys(redis) :
                (/\ redis[k].path = PathOf(req[p])
                 /\ Range(redis[k].query) = Range(req[p].query))
                => k = generateCacheKey(req[p])

\* C19 witness: a list request was served from the entry stored by a request that
\* gave the same two filters in the other order.
C19_Witness ==
    /\ sent.resp.by = "cache"
    /\ Len(sent.req.query) >= 2
    /\ redis[ReadKey].query # sent.req.query
    /\ Range(redis[ReadKey].query) = Range(sent.req.query)

\* the sum of a record's year-wise question counts
RECURSIVE SumOfYears(_, _)
SumOfYears(counts, years) ==
    IF years = {} THEN 0
    ELSE LET y == CHOOSE y \in years : TRUE
         IN  counts[y] + SumOfYears(counts, years \ {y})

\* C20: the averageCompletionRate of a statistics response computed from the store is
\* the rounded mean over the stored records of questionSolved divided by the sum of
\* the record's year-wise counts times 100, taken as 0 for a record whose sum is 0,
\* and 0 for an empty store.
C20_AverageCompletionRate ==
    (sent.req.route = "stats" /\ sent.resp.by = "controller" /\ sent.resp.code = 200) =>
        LET docs == DocsFrom(sent.storeAfter, 1)
            rates == [i \in DOMAIN docs |->
                         RateOf(docs[i].questionSolved,
                                SumOfYears(docs[i].yearWiseQuestionCount,
                                           DOMAIN docs[i].yearWiseQuestionCount \cap Years))]
        IN  sent.resp.body.averageCompletionRate = RoundedMean(rates)

\* the time left, in seconds and rounded up, of the window the limiter `by` keeps for
\* the client of request r
WindowLeft(rd, r, by) ==
    LET key == IF by = "adminRateLimiter" THEN AdminKey(r) ELSE GeneralKey(r)
    IN  IF key \in DOMAIN rd THEN (rd[key].ttl + 999) \div 1000 ELSE 0

\* C21: the retry-after hint of a 429 response equals the time remaining until the
\* client's current 60-second window ends, at whatever point of the window the
\* request is rejected.
C21_RetryAfterIsRemainingWindow ==
    (sent.slot # 0 /\ sent.resp.code = 429) =>
        /\ sent.resp.body.retryAfter = WindowLeft(redis, sent.req, sent.resp.by)
        /\ sent.resp.body.retryAfter <= 60

\* C22: a GET /health that reaches the general limiter is answered 200 by the health
\* handler, never 429, whatever the counters hold and without any credential, and the
\* step leaves every limiter counter as it was.
C22_HealthExempt ==
    [][\A p \in Procs :
          (pc[p] = "rateLimiter" /\ req[p].route = "health" /\ pc'[p] = "idle") =>
              /\ sent'.resp = HealthCheck
              /\ sent'.loc.counted = {}
              /\ RateCounters(redis') = RateCounters(redis)]_vars

\* C22 witness: a health request without credential is answered 200 while the client's
\* general counter is beyond the ceiling.
C22_Witness ==
    /\ sent.req.route = "health"
    /\ sent.req.adminKey = ""
    /\ sent.resp.code = 200
    /\ HitsOf(GeneralKey(sent.req)) > GeneralMax

\* C23: with requests of one client handled concurrently by several instances on one
\* Redis, the general limiter admits at most 30 requests per window, and the counter
\* holds every request counted in the window: no increment is lost.
C23_SharedCeiling ==
    /\ window.admitted <= GeneralMax
    /\ \A r \in SharedRequests : HitsOf(GeneralKey(r)) = window.n

\* C23 witness: of two requests in flight at once, the window's 30th is admitted and
\* the 31st is rejected.
C23_Witness ==
    \E p \in Procs :
        /\ sent.slot \notin {0, p}
        /\ sent.resp.code = 429
        /\ sent.loc.nth = GeneralMax + 1
        /\ loc[p].nth = GeneralMax
        /\ pc[p] = "cacheMiddleware"
        /\ window.admitted = GeneralMax

\* the request carries no credential: no x-admin-key and no authorization header
NoCredential(r) == r.adminKey = "" /\ r.authorization = <<>>

\* the request carries the secret in x-admin-key or as a Bearer token
CarriesSecret(r) ==
    \/ r.adminKey = ExpectedAdminKey
    \/ r.authorization = <<"Bearer ", ExpectedAdminKey>>

\* C24: adminAuth answers an admin request without credential 401 and one whose
\* credential is not the secret 403, leaving the store and the cached reads as they
\* were, and only a request that carries the secret in x-admin-key or as a Bearer
\* token changes the store.
C24_AdminGate ==
    [][/\ \A p \in Procs :
             (pc[p] = "adminAuth" /\ pc'[p] # "adminAuth" /\ ~CarriesSecret(req[p])) =>
                 /\ sent'.resp.by = "adminAuth"
                 /\ sent'.resp.code = IF NoCredential(req[p]) THEN 401 ELSE 403
                 /\ store' = store
                 /\ CacheKeys(redis') = CacheKeys(redis)
       /\ store' # store =>
             \E p \in Procs : IsAdminRoute(req[p]) /\ CarriesSecret(req[p])]_vars

\* C25: a list response computed for page p and limit L over T matching records has
\* totalCount = T, totalPages = ceil(T / L), the at most L records that follow the first
\* (p-1)*L as chapters, hasNextPage iff p < totalPages, hasPrevPage iff p > 1, nextPage
\* p+1 and prevPage p-1 with their flag and null without; with T = 0 chapters is empty
\* and hasNextPage is false.
C25_Pagination ==
    (sent.slot # 0 /\ sent.req.method = "GET" /\ sent.req.route = "list"
        /\ sent.resp.code = 200 /\ ~sent.resp.cached) =>
        LET q == sent.req.query
            p == ToNumber(Param(q, "page"))
            L == ToNumber(Param(q, "limit"))
            ids == {id \in DOMAIN sent.storeAfter : Matches(sent.storeAfter[id], q)}
            T == Cardinality(ids)
            pg == sent.resp.body.pagination
            chapters == sent.resp.body.chapters
        IN  /\ p >= 1 /\ L \in 1..MaxLimit
            /\ pg.totalCount = T
            /\ pg.totalPages * L >= T /\ (pg.totalPages = 0 \/ (pg.totalPages - 1) * L < T)
            /\ Len(chapters) <= L
            /\ Len(chapters) = IF T - (p - 1) * L > L THEN L
                               ELSE IF T - (p - 1) * L > 0 THEN T - (p - 1) * L ELSE 0
            /\ \A i \in DOMAIN chapters :
                   /\ chapters[i]["_id"] \in ids
                   /\ Cardinality({id \in ids : id < chapters[i]["_id"]}) = (p - 1) * L + i - 1
            /\ pg.hasNextPage <=> p < pg.totalPages
            /\ pg.hasPrevPage <=> p > 1
            /\ pg.nextPage = IF pg.hasNextPage THEN <<p + 1>> ELSE <<>>
            /\ pg.prevPage = IF pg.hasPrevPage THEN <<p - 1>> ELSE <<>>
            /\ T = 0 => (chapters = <<>> /\ pg.totalCount = 0 /\ ~pg.hasNextPage)

\* C25 witness: two records match, and the first page of limit 1 announces page 2 of 2.
C25_Witness ==
    /\ sent.req.route = "list"
    /\ sent.resp.code = 200
    /\ sent.resp.body.pagination.totalCount = 2
    /\ sent.resp.body.pagination.limit = 1
    /\ sent.resp.body.pagination.totalPages = 2
    /\ sent.resp.body.pagination.nextPage = <<2>>
    /\ Len(sent.resp.body.chapters) = 1

\* C26: a GET, PUT, PATCH or DELETE by an identifier the store does not hold, handled
\* while no other request is in flight, is answered 404 with status "error": the step
\* that answers leaves the store and the cached reads as they are and calls no
\* invalidation, and a 404 computed by the read handler is sent as it is and not
\* written to the cache.
C26_MissingIdIs404 ==
    [][\A p \in Procs :
          /\ (/\ req[p].route = "byId"
              /\ req[p].id \notin DOMAIN store
              /\ pc[p] \in {"cacheMiddleware", "updateChapter", "deleteChapter"}
              /\ \A other \in Procs \ {p} : pc[other] = "idle"
              /\ pc'[p] = "idle") =>
                 /\ sent'.resp.code = 404
                 /\ sent'.resp.status = "error"
                 /\ ~sent'.loc.cleared
                 /\ store' = store
                 /\ CacheKeys(redis') = CacheKeys(redis)
          /\ (/\ req[p].route = "byId"
              /\ req[p].id \notin DOMAIN store
              /\ pc[p] = "readHandler"
              /\ pc'[p] = "resJson") =>
                 /\ loc'[p].result.code = 404
                 /\ loc'[p].result.status = "error"
                 /\ store' = store
          /\ (pc[p] = "resJson" /\ loc[p].result.code = 404 /\ pc'[p] = "idle") =>
                 /\ sent'.resp.code = 404
                 /\ CacheKeys(redis') = CacheKeys(redis)]_vars

\* C27: when two bulk creates of the same records are in flight together and both have
\* called insertMany, at most one of them has the records as saved, the other has them
\* as store faults, and the store holds exactly one copy of each.
C27_ConcurrentSameRecord ==
    \A p, q \in Procs :
        (/\ p # q
         /\ req[p].method = "POST" /\ req[q].method = "POST"
         /\ ChaptersOf(req[p]) = ChaptersOf(req[q])
         /\ loc[p].insertCalled /\ loc[q].insertCalled) =>
            /\ loc[p].savedChapters = <<>> \/ loc[q].savedChapters = <<>>
            /\ loc[p].savedChapters = <<>> =>
                   Len(loc[p].writeErrors) = Len(loc[p].validChapters)
            /\ \A i \in DOMAIN loc[p].validChapters :
                   Cardinality({id \in DOMAIN store :
                       Identity(store[id]) = Identity(loc[p].validChapters[i])}) = 1

\* C28: the entry a GET looks up under its key was stored for the same path and the
\* same set of (parameter, value) pairs: no two requests that differ in either share a
\* key, and a hit never answers with the response of another query.
C28_KeyInjective ==
    /\ \A p \in Procs :
           pc[p] = "cacheMiddleware" =>
               \A k \in CacheKeys(redis) :
                   k = generateCacheKey(req[p]) =>
                       /\ redis[k].path = PathOf(req[p])
                       /\ Range(redis[k].query) = Range(req[p].query)
    /\ sent.resp.by = "cache" =>
           /\ redis[generateCacheKey(sent.req)].path = PathOf(sent.req)
           /\ Range(redis[generateCacheKey(sent.req)].query) = Range(sent.req.query)

\* C28 witness: a filtered list request is served from its entry while the unfiltered
\* list, the statistics and a single record are cached under keys of their own.
C28_Witness ==
    /\ sent.resp.by = "cache"
    /\ sent.req.route = "list"
    /\ HasParam(sent.req.query, "status")
    /\ \E k1, k2, k3 \in CacheKeys(redis) :
           /\ redis[k1].path = <<"/">> /\ ~HasParam(redis[k1].query, "status")
           /\ redis[k2].path = <<"/stats">>
           /\ redis[k3].path = <<"/", IdStr(1)>>

\* C29: the invalidation of chapters:* (the KEYS step and the DEL step) removes cached
\* read responses only: every limiter counter, general and admin, keeps its hits and
\* its remaining window, and the record store is not touched.
C29_InvalidationFrame ==
    [][\A p \in Procs :
          (pc[p] \in {"clearChapterCache", "delKeys"} /\ pc'[p] # pc[p]) =>
              /\ RateCounters(redis') = RateCounters(redis)
              /\ DOMAIN redis \ DOMAIN redis' \subseteq CacheKeys(redis)
              /\ store' = store]_vars

\* C29 witness: a write's invalidation has deleted cached reads while the client's
\* general and admin counters are in Redis.
C29_Witness ==
    /\ sent.loc.cleared
    /\ sent.loc.keys # {}
    /\ sent.cacheAfter = {}
    /\ HitsOf(GeneralKey(sent.req)) > 0
    /\ HitsOf(AdminKey(sent.req)) > 0

\* C30: every request to an admin route, whatever its credential, is counted under the
\* caller's admin key before anything else answers it (no Redis command failing), and a
\* request answered 429 was rejected by a limiter before adminAuth, the validators and
\* the handlers: it validated nothing, wrote nothing and invalidated nothing.
C30_AdminLimiterFirst ==
    (sent.slot # 0 /\ IsAdminRoute(sent.req) /\ ~sent.loc.cacheErr) =>
        /\ AdminKey(sent.req) \in sent.loc.counted
        /\ sent.resp.code = 429 =>
               /\ sent.resp.by \in {"rateLimiter", "adminRateLimiter"}
               /\ sent.loc.validChapters = <<>>
               /\ ~sent.loc.insertCalled
               /\ ~sent.loc.cleared
               /\ sent.storeAfter = store

\* C31: every request on the read path or in the bulk-create pipeline ends, and the
\* step that ends it produces its one outcome, a response of a handler or an error
\* forwarded to the error handler, never both; no other step of the request sends or
\* forwards anything, and nothing is sent once it has ended.
C31_ExactlyOneOutcome ==
    /\ [][IF pc[1] # "idle" /\ pc'[1] = "idle"
          THEN /\ sent'.slot = 1
               /\ sent'.resp.code # 0
               /\ sent'.resp.by = "errorHandler" <=> sent'.resp.err # ""
          ELSE sent' = NoSent]_vars
    /\ (pc[1] # "idle") ~> (pc[1] = "idle")

\* C31 witness: a bulk create has ended with its report after insertMany failed for
\* one record of the batch and stored the other.
C31_Witness ==
    /\ pc[1] = "idle"
    /\ sent.req.method = "POST"
    /\ sent.resp.by = "controller"
    /\ sent.loc.writeErrors # <<>>
    /\ Len(sent.loc.savedChapters) >= 1

====
